---- MODULE Spec2Model ----
(***************************************************************************)
(* Model of alibi/confidence/model_linearity.py: the two neighbourhood     *)
(* samplers, the two linearity scorers, the feature-range estimator, the   *)
(* LinearityMeasure facade (fit / linearity_measure) and the stateless     *)
(* linearity_measure entry point.                                          *)
(*                                                                         *)
(* Numbers are exact rationals <<n, d>> in lowest terms with d > 0, so     *)
(* the arithmetic of the samplers and of the scorers is the arithmetic of  *)
(* the code without floating-point rounding.  An array with a leading      *)
(* batch axis is a record [shape, rows]: shape is the per-instance shape   *)
(* (x.shape[1:]) and rows the instances, each flattened to a vector.       *)
(* A raised exception is a record [exc, at] naming its class and the       *)
(* source line that raises it.                                             *)
(***************************************************************************)
EXTENDS Integers, Sequences, FiniteSets, TLC

VARIABLES
    method,          \* self.method
    model_type,      \* self.model_type
    epsilon,         \* self.epsilon
    nb_samples,      \* self.nb_samples
    res,             \* self.res
    alphas,          \* self.alphas
    is_fit,          \* self.is_fit
    X_train,         \* self.X_train (Unset until fit() assigns it)
    features_range,  \* self.features_range (Unset until assigned)
    input_shape,     \* self.input_shape (Unset until fit() assigns it)
    call,            \* the last operation: its name, its arguments, what it did
    fitCalled,       \* history: fit() was called
    fitReturned,     \* history: some fit() call returned
    lastFit          \* history: the X_train of the last fit() call that returned

vars == <<method, model_type, epsilon, nb_samples, res, alphas, is_fit, X_train,
          features_range, input_shape, call, fitCalled, fitReturned, lastFit>>

facade == <<is_fit, X_train, features_range, input_shape>>
config == <<method, model_type, epsilon, nb_samples, res, alphas>>
history == <<fitCalled, fitReturned, lastFit>>

-----------------------------------------------------------------------------
(* Bounds of the model *)

MaxCoord == 1        \* the features of an instance x are in 0..MaxCoord
MaxTrainRows == 2    \* a training set has at most this many instances
MaxDraws == 2        \* a call of the function draws at most this many random steps
MaxRes == 4          \* the grid resolutions tried are 1..MaxRes

-----------------------------------------------------------------------------
(* Python values *)

None == [none |-> TRUE]
Unset == [unset |-> TRUE]       \* an attribute that was never assigned

Raise(e, line) == [exc |-> e, at |-> line]
IsRaise(v) == "exc" \in DOMAIN v

-----------------------------------------------------------------------------
(* Exact rational arithmetic *)

Abs(i) == IF i < 0 THEN -i ELSE i

RECURSIVE Gcd(_, _)
Gcd(a, b) == IF b = 0 THEN a ELSE Gcd(b, a % b)

\* n / d in lowest terms with a positive denominator
Lowest(n, d, g) == IF d < 0 THEN <<(-n) \div g, (-d) \div g>> ELSE <<n \div g, d \div g>>
Rat(n, d) == Lowest(n, d, Gcd(Abs(n), Abs(d)))

R(i) == <<i, 1>>
RAdd(p, q) == Rat(p[1] * q[2] + q[1] * p[2], p[2] * q[2])
RSub(p, q) == Rat(p[1] * q[2] - q[1] * p[2], p[2] * q[2])
RMul(p, q) == Rat(p[1] * q[1], p[2] * q[2])
RAbs(p) == <<Abs(p[1]), p[2]>>
RLeq(p, q) == p[1] * q[2] <= q[1] * p[2]
RLess(p, q) == p[1] * q[2] < q[1] * p[2]
RSquare(p) == RMul(p, p)

RECURSIVE RSum(_)
RSum(s) == IF s = <<>> THEN R(0) ELSE RAdd(Head(s), RSum(Tail(s)))

RECURSIVE Concat(_)
Concat(ss) == IF ss = <<>> THEN <<>> ELSE Head(ss) \o Concat(Tail(ss))

RECURSIVE Prod(_)
Prod(s) == IF s = <<>> THEN 1 ELSE Head(s) * Prod(Tail(s))

\* ndarray.mean over every listed element
RMean(s) == RMul(RSum(s), Rat(1, Len(s)))

RMin(S) == CHOOSE p \in S : \A q \in S : RLeq(p, q)
RMax(S) == CHOOSE p \in S : \A q \in S : RLeq(q, p)

\* np.round: to the nearest integer, a tie to the even one
NpRound(p) ==
    LET f == p[1] \div p[2]          \* floor
        r2 == 2 * (p[1] - f * p[2])  \* twice the remainder, against p[2]
    IN  IF r2 < p[2] THEN f
        ELSE IF r2 > p[2] THEN f + 1
        ELSE IF f % 2 = 0 THEN f ELSE f + 1

-----------------------------------------------------------------------------
(* Arrays *)

Array(shape, rows) == [shape |-> shape, rows |-> rows]
NbInstances(x) == Len(x.rows)             \* x.shape[0]
FullShape(x) == <<Len(x.rows)>> \o x.shape  \* x.shape
FlatDim(x) == Prod(x.shape)               \* x.reshape(x.shape[0], -1).shape[1]

\* ndarray.reshape(shape[0], -1): numpy cannot infer the -1 of an array
\* that holds no element
ReshapeRowsFails(x) == NbInstances(x) * FlatDim(x) = 0

-----------------------------------------------------------------------------
(* FeatureRangeEstimator *)

Column(X, d) == {X.rows[i][d] : i \in 1..NbInstances(X)}

\* An array of shape (flat dim, 2): one <<min, max>> row per feature dimension.
_infer_features_range(X) ==
    IF ReshapeRowsFails(X) THEN Raise("ValueError", 268)
    ELSE Array(<<2>>, [d \in 1..FlatDim(X) |->
                          <<RMin(Column(X, d)), RMax(Column(X, d))>>])

-----------------------------------------------------------------------------
(* NeighborhoodSampler *)

SqDist(u, v) == RSum([j \in 1..Len(u) |-> RSquare(RSub(u[j], v[j]))])

\* All sequences that take their i-th element from sets[i].
RECURSIVE Product(_)
Product(sets) ==
    IF sets = <<>> THEN {<<>>}
    ELSE {<<h>> \o t : h \in Head(sets), t \in Product(Tail(sets))}

\* The index sequences kneighbors may return for the distances dist of the
\* n training rows: the k nearest, nearest first; which of several equally
\* distant rows comes first is up to the index structure.
Nearest(dist, n, k) ==
    {idx \in [1..k -> 1..n] :
        /\ \A a, b \in 1..k : a < b =>
               idx[a] # idx[b] /\ RLeq(dist[idx[a]], dist[idx[b]])
        /\ \A j \in 1..n : (\A a \in 1..k : idx[a] # j) =>
               \A a \in 1..k : RLeq(dist[idx[a]], dist[j])}

\* lines 132-139: the neighbourhoods of one instance u
KNeighbors(u, T, k) ==
    {[s \in 1..k |-> T.rows[idx[s]]] :
        idx \in Nearest([j \in 1..NbInstances(T) |-> SqDist(u, T.rows[j])],
                        NbInstances(T), k)}

\* The possible results of _sample_knn: an exception, or the set of arrays
\* of shape (nb_instances, nb_samples, flat dim) it may return.
_sample_knn(x, T, k) ==
    IF ReshapeRowsFails(x) THEN Raise("ValueError", 126)
    ELSE IF ReshapeRowsFails(T) THEN Raise("ValueError", 131)
    ELSE IF k < 1 \/ k > NbInstances(T) \/ FlatDim(T) # FlatDim(x)
    THEN Raise("ValueError", 136)
    ELSE [samples |-> Product([i \in 1..NbInstances(x) |-> KNeighbors(x.rows[i], T, k)])]

\* lines 174-176
GridSize(eps, r) ==
    LET size == NpRound(RMul(eps, R(r)))
    IN  IF size <= 2 THEN 2 ELSE size

\* line 178; a features range is an array of shape (dim, 2), a row <<min, max>>
Deltas(range, r) ==
    [d \in 1..NbInstances(range) |->
        RMul(RAbs(RSub(range.rows[d][2], range.rows[d][1])), Rat(1, r))]

\* SignedSteps with the magnitude drawn from 1..size + 1, as if randint
\* included its upper end
SignedStepsInclusive(size) == {s * m : s \in {-1, 1}, m \in 1..(size + 1)}

\* lines 180-182: a random sign times a random magnitude in 1..size
SignedSteps(size) == {s * m : s \in {-1, 1}, m \in 1..size}

\* lines 180-185 for one instance u and one of its samples: u + rnd * deltas
\* for every draw rnd of one signed step per dimension of u.  The product
\* and the sum follow numpy's broadcasting of the last axis: deltas of
\* length 1 serve every dimension, and a u of dimension 1 is stretched to
\* the length of deltas.
Near(u, deltas, steps) ==
    LET dim == Len(u)
        width == IF dim = 1 THEN Len(deltas) ELSE dim
    IN  {[j \in 1..width |->
            RAdd(u[IF dim = 1 THEN 1 ELSE j],
                 RMul(R(rnd[IF dim = 1 THEN 1 ELSE j]),
                      deltas[IF Len(deltas) = 1 THEN 1 ELSE j]))] :
            rnd \in [1..dim -> steps]}

\* The possible results of _sample_gridSampling: an exception, or the set of
\* arrays of shape (nb_instances, nb_samples, width) it may return.
_sample_gridSampling(x, range, eps, k, r) ==
    LET dim == FlatDim(x)
        rows == NbInstances(range)
    IN  IF ReshapeRowsFails(x) THEN Raise("ValueError", 168)
        ELSE IF ~(dim > 0) THEN Raise("AssertionError", 171)
        ELSE IF range = None THEN Raise("AssertionError", 172)
        ELSE IF r = 0 THEN Raise("ZeroDivisionError", 178)
        ELSE IF rows # dim /\ rows # 1 /\ dim # 1 THEN Raise("ValueError", 184)
        ELSE [samples |->
                 Product([i \in 1..NbInstances(x) |->
                     [1..k -> Near(x.rows[i], Deltas(range, r),
                                   SignedSteps(GridSize(eps, r)))]])]

-----------------------------------------------------------------------------
(* The caller's predict_fn *)

\* a regressor returns one number per instance (an array of shape (M,)), a
\* classifier one row of class probabilities per instance (shape (M, 2))
\* an affine regressor's weight of feature j is w + v * j and its offset b
Dot(pf, u) == RSum([j \in 1..Len(u) |-> RMul(R(pf.w + pf.v * j), u[j])])

PredictOne(pf, v) ==
    CASE pf.kind = "affine" -> <<RAdd(Dot(pf, v), R(pf.b))>>
      [] pf.kind = "square" -> <<RSquare(RSum(v))>>
      [] pf.kind = "threshold" ->
            IF RLess(R(pf.b), RSum(v)) THEN <<R(1), R(0)>>
            ELSE IF RSum(v) = R(pf.b) THEN <<Rat(1, 2), Rat(1, 2)>>
            ELSE <<R(0), R(1)>>

\* np.log(p + 1e-10) to one decimal, on the probabilities a classifier of
\* this model returns
LogFloor(p) ==
    CASE p = R(0) -> Rat(-230, 10)
      [] p = Rat(1, 2) -> Rat(-7, 10)
      [] p = R(1) -> R(0)

-----------------------------------------------------------------------------
(* LinearityScorer *)

\* line 249
DefaultAlphas == Array(<<>>, <<Rat(1, 2), Rat(1, 2)>>)

\* Superpose with the first weight applied to both terms
SuperposeFirstWeight(a, u, v) ==
    [j \in 1..Len(u) |-> RAdd(RMul(a.rows[1], u[j]), RMul(a.rows[1], v[j]))]

\* lines 42 and 46, 92 and 96: np.matmul(np.array([u, v]).T, alphas).T on vectors
Superpose(a, u, v) ==
    [j \in 1..Len(u) |-> RAdd(RMul(a.rows[1], u[j]), RMul(a.rows[2], v[j]))]

\* Both scorers follow the same steps; the classifier's takes every output
\* of predict_fn to log space (logspace), the regressor's leaves it as it is.
\* lines names the source lines of the steps that can raise.  The result
\* lists in calls the batch size of every call of predict_fn, in order.
Transform(logspace, v) == IF logspace THEN LogFloor(v) ELSE v

\* lines 54 and 104: the squared differences of out_sum and sum_out, averaged
\* over the samples and the output channels of every instance.  x_out, outs
\* and out_sum are the transformed outputs of predict_fn on x, on the n * k
\* samples and on the n * k superpositions.
Discrepancy(a, x_out, outs, out_sum, n, k) ==
    [i \in 1..n |->
        RMean(Concat([s \in 1..k |->
            [c \in 1..Len(outs[1]) |->
                RSquare(RSub(out_sum[(i - 1) * k + s][c],
                             Superpose(a, x_out[i], outs[(i - 1) * k + s])[c]))]]))]

\* predict_fn on a batch, every output transformed
TransformRow(logspace, row) == [c \in 1..Len(row) |-> Transform(logspace, row[c])]
Outputs(pf, batch, logspace) ==
    [m \in 1..Len(batch) |-> TransformRow(logspace, PredictOne(pf, batch[m]))]

Superpositions(a, x, X_samples) ==
    Concat([i \in 1..Len(X_samples) |->
               [s \in 1..Len(X_samples[1]) |-> Superpose(a, x.rows[i], X_samples[i][s])]])

\* PredictCalls with the instances and the samples predicted in one batch
PredictCallsFused(n, k) == <<n * k + n, n * k>>

\* lines 35, 36 and 47, 85, 86 and 97: the batch sizes of the calls of
\* predict_fn of a scoring that returns: the samples, the instances, the
\* superpositions
PredictCalls(n, k) == <<n * k, n, n * k>>

Scorer(pf, x, shape, X_samples, a, logspace, lines) ==
    LET n == Len(X_samples)
        k == Len(X_samples[1])
    IN  IF Len(X_samples[1][1]) # Prod(shape)
        THEN [exc |-> "ValueError", at |-> lines.reshape, calls |-> <<>>, score |-> <<>>]
        ELSE IF Len(a.rows) # 2
        THEN [exc |-> "ValueError", at |-> lines.matmul, calls |-> <<n * k, n>>,
              score |-> <<>>]
        ELSE [exc |-> "none", at |-> 0, calls |-> PredictCalls(n, k),
              score |-> Discrepancy(a, Outputs(pf, x.rows, logspace),
                                    Outputs(pf, Concat(X_samples), logspace),
                                    Outputs(pf, Superpositions(a, x, X_samples), logspace),
                                    n, k)]

_calculate_linearity_regression(pf, x, shape, X_samples, a) ==
    Scorer(pf, x, shape, X_samples, a, FALSE, [reshape |-> 32, matmul |-> 42])

_calculate_linearity_measure(pf, x, shape, X_samples, a) ==
    Scorer(pf, x, shape, X_samples, a, TRUE, [reshape |-> 82, matmul |-> 92])

-----------------------------------------------------------------------------
(* _linearity_measure: sampling, then scoring *)

\* What one run did: the exception it raised ("none": it returned), the
\* sampler it entered ("none": it entered none), the features range handed
\* to that sampler, the neighbourhoods sampled, the batch sizes of the calls
\* of predict_fn, and the score returned.
Outcome(e, line, sampler, range, samples, calls, score) ==
    [exc |-> e, at |-> line, sampler |-> sampler, range |-> range,
     samples |-> samples, calls |-> calls, score |-> score]

Failed(e, line) == Outcome(e, line, "none", None, <<>>, <<>>, <<>>)

\* Score with every model_type but 'classifier' scored as a regressor
ScoreElseRegressor(pf, x, X_sampled, a, mtype) ==
    IF mtype = "classifier"
    THEN _calculate_linearity_measure(pf, x, x.shape, X_sampled, a)
    ELSE _calculate_linearity_regression(pf, x, x.shape, X_sampled, a)

\* lines 255-262, on one sampled array
Score(pf, x, X_sampled, a, mtype) ==
    IF mtype = "classifier"
    THEN _calculate_linearity_measure(pf, x, x.shape, X_sampled, a)
    ELSE IF mtype = "regressor"
    THEN _calculate_linearity_regression(pf, x, x.shape, X_sampled, a)
    ELSE [exc |-> "NameError", at |-> 262, calls |-> <<>>, score |-> <<>>]

\* The set of possible outcomes of _linearity_measure, one per array the
\* sampler may return.
_linearity_measure(pf, x, T, range, meth, eps, k, r, a, mtype) ==
    LET sampled == IF meth = "knn" THEN _sample_knn(x, T, k)
                   ELSE _sample_gridSampling(x, range, eps, k, r)
        used == IF meth = "knn" THEN None ELSE range
        al == IF a = None THEN DefaultAlphas ELSE a
    IN  IF meth # "knn" /\ meth # "gridSampling" THEN {Failed("AssertionError", 227)}
        ELSE IF meth = "knn" /\ T = None THEN {Failed("AssertionError", 231)}
        ELSE IF meth = "gridSampling" /\ range = None THEN {Failed("AssertionError", 235)}
        ELSE IF IsRaise(sampled)
        THEN {Outcome(sampled.exc, sampled.at, meth, used, <<>>, <<>>, <<>>)}
        ELSE {LET sc == Score(pf, x, X, al, mtype)
              IN  Outcome(sc.exc, sc.at, meth, used, X, sc.calls, sc.score) :
                  X \in sampled.samples}

-----------------------------------------------------------------------------
(* LinearityMeasure *)

Tuple(s) == [tuple |-> s]

\* for _ in v: Python iterates over a sequence; an int is not iterable
Iterate(v, line) == IF v \in Int THEN Raise("TypeError", line) ELSE [items |-> v]

\* line 350: [[0, 1] for _ in x.shape[1]]
UnitRange(x) ==
    IF Len(FullShape(x)) < 2 THEN Raise("IndexError", 350)
    ELSE LET it == Iterate(FullShape(x)[2], 350)
         IN  IF IsRaise(it) THEN it
             ELSE Array(<<2>>, [j \in 1..Len(it.items) |-> <<R(0), R(1)>>])

\* reading an attribute that no fit() has assigned yet
Attribute(v, line) == IF v = Unset THEN Raise("AttributeError", line) ELSE v

\* ShapeMismatch without the assertion
ShapeUnchecked(x) == FALSE

\* lines 339-340: the assertion on the shape fails
ShapeMismatch(x) == is_fit /\ Tuple(x.shape) # input_shape

\* KnnUnfit without the assertion
KnnUnchecked == FALSE

\* line 343: the assertion of the knn branch fails
KnnUnfit == ~is_fit

\* GridRange with the fallback taken whether or not the facade is fit
GridRangeFallback(x) == UnitRange(x)

\* lines 349-352: the range the gridSampling branch goes on with, or the
\* exception raised on the way to it
GridRange(x) == IF ~is_fit THEN UnitRange(x) ELSE Attribute(features_range, 352)

\* lines 337-360: the set of possible outcomes of self.linearity_measure,
\* each with the value self.features_range has after it
LinearityMeasure_linearity_measure(pf, x) ==
    LET keep(outs) == {[out |-> o, range |-> features_range] : o \in outs}
        range == GridRange(x)
    IN  IF ShapeMismatch(x) THEN keep({Failed("AssertionError", 340)})
        ELSE IF method = "knn"
        THEN IF KnnUnfit THEN keep({Failed("AssertionError", 343)})
             ELSE IF IsRaise(Attribute(X_train, 344))
             THEN keep({Failed("AttributeError", 344)})
             ELSE keep(_linearity_measure(pf, x, X_train, None, method, epsilon,
                                          nb_samples, res, alphas, model_type))
        ELSE IF method = "gridSampling"
        THEN IF IsRaise(range) THEN keep({Failed(range.exc, range.at)})
             ELSE {[out |-> o, range |-> range] :
                      o \in _linearity_measure(pf, x, None, range, method, epsilon,
                                               nb_samples, res, alphas, model_type)}
        ELSE keep({Failed("NameError", 358)})

\* ChosenRange with the range inferred whenever a training set is given
ChosenRangeFromTrain(range, T) ==
    IF T # None THEN _infer_features_range(T) ELSE range

\* lines 409-412: the range the gridSampling branch of the function goes on
\* with, or the exception the inference raises
ChosenRange(range, T) ==
    IF T # None /\ range = None THEN _infer_features_range(T) ELSE range

\* lines 399-420: the set of possible outcomes of the module's linearity_measure
linearity_measure(pf, x, range, meth, T, eps, k, r, a, mtype) ==
    IF meth = "knn"
    THEN IF T = None THEN {Failed("AssertionError", 400)}
         ELSE _linearity_measure(pf, x, T, None, meth, eps, k, r, a, mtype)
    ELSE IF meth = "gridSampling"
    THEN IF range = None /\ T = None THEN {Failed("AssertionError", 407)}
         ELSE IF IsRaise(ChosenRange(range, T))
         THEN {Failed(ChosenRange(range, T).exc, ChosenRange(range, T).at)}
         ELSE _linearity_measure(pf, x, None, ChosenRange(range, T), meth, eps, k, r,
                                 a, mtype)
    ELSE {Failed("NameError", 418)}

-----------------------------------------------------------------------------
(* Inputs *)

Methods == {"knn", "gridSampling", "other"}
ModelTypes == {"classifier", "regressor", "other"}

Vectors(d) == [1..d -> {R(c) : c \in 0..MaxCoord}]
Batches(shape, n) == {Array(shape, rows) : rows \in [1..n -> Vectors(Prod(shape))]}

\* The j-th instance of the training sets of flat dimension d.
TrainRow(j, d) == [c \in 1..d |-> R(((j + c) \div c) % (MaxCoord + 1))]
TrainSet(shape, n) == Array(shape, [j \in 1..n |-> TrainRow(j, Prod(shape))])
TrainSets == {TrainSet(sh, n) : sh \in {<<1>>, <<2>>}, n \in 0..MaxTrainRows}

Affine(w, v, b) == [kind |-> "affine", w |-> w, v |-> v, b |-> b]
Regressors == {Affine(0, 1, 1), [kind |-> "square", w |-> 0, v |-> 0, b |-> 0]}
Classifiers == {[kind |-> "threshold", w |-> 0, v |-> 0, b |-> 1]}
\* predict_fn returns what the scorer of model_type reshapes
PredictorsFor(mtype) ==
    IF mtype = "classifier" THEN Classifiers
    ELSE IF mtype = "regressor" THEN Regressors
    ELSE Classifiers \cup Regressors

\* the predict functions the facade is called with
FacadePredictors(mtype) ==
    IF mtype = "classifier" THEN Classifiers ELSE {Affine(0, 1, 1)}

\* lines 274-275: the defaults of epsilon and alphas
DefaultEpsilon == Rat(1, 25)

Args(pf, x, range, meth, T, eps, k, r, a, mtype) ==
    [pf |-> pf, x |-> x, range |-> range, method |-> meth, T |-> T, eps |-> eps,
     k |-> k, r |-> r, a |-> a, mtype |-> mtype]
NoArgs == Args(None, None, None, "none", None, R(0), 0, 0, None, "none")
Returned == Failed("none", 0)

-----------------------------------------------------------------------------
(* The facade's life: construction, then fit() and linearity_measure() calls *)

\* lines 296-303: a facade constructed with any method and model_type
\* string, nb_samples = 1, res = 2 and the defaults of epsilon and alphas
Init ==
    /\ method \in Methods
    /\ model_type \in ModelTypes
    /\ epsilon = DefaultEpsilon
    /\ nb_samples = 1
    /\ res = 2
    /\ alphas = None
    /\ is_fit = FALSE
    /\ X_train = Unset
    /\ features_range = Unset
    /\ input_shape = Unset
    /\ call = [op |-> "init", args |-> NoArgs, out |-> Returned]
    /\ fitCalled = FALSE
    /\ fitReturned = FALSE
    /\ lastFit = None

\* Fit without line 320
FitNoFlag(X) ==
    LET range == _infer_features_range(X)
    IN  /\ X_train' = X
        /\ fitCalled' = TRUE
        /\ IF IsRaise(range)
           THEN /\ UNCHANGED <<features_range, input_shape, is_fit, fitReturned, lastFit>>
                /\ call' = [op |-> "fit", args |-> [NoArgs EXCEPT !.T = X],
                            out |-> Failed(range.exc, range.at)]
           ELSE /\ features_range' = range
                /\ input_shape' = Tuple(X.shape)
                /\ is_fit' = is_fit
                /\ fitReturned' = TRUE
                /\ lastFit' = X
                /\ call' = [op |-> "fit", args |-> [NoArgs EXCEPT !.T = X], out |-> Returned]
        /\ UNCHANGED config

\* lines 317-320
Fit(X) ==
    LET range == _infer_features_range(X)
    IN  /\ X_train' = X
        /\ fitCalled' = TRUE
        /\ IF IsRaise(range)
           THEN /\ UNCHANGED <<features_range, input_shape, is_fit, fitReturned, lastFit>>
                /\ call' = [op |-> "fit", args |-> [NoArgs EXCEPT !.T = X],
                            out |-> Failed(range.exc, range.at)]
           ELSE /\ features_range' = range
                /\ input_shape' = Tuple(X.shape)
                /\ is_fit' = TRUE
                /\ fitReturned' = TRUE
                /\ lastFit' = X
                /\ call' = [op |-> "fit", args |-> [NoArgs EXCEPT !.T = X], out |-> Returned]
        /\ UNCHANGED config

\* lines 337-360
Measure(pf, x) ==
    \E r \in LinearityMeasure_linearity_measure(pf, x) :
        /\ call' = [op |-> "measure",
                    args |-> Args(pf, x, None, method, None, epsilon, nb_samples, res,
                                  alphas, model_type),
                    out |-> r.out]
        /\ features_range' = r.range
        /\ UNCHANGED <<is_fit, X_train, input_shape>>
        /\ UNCHANGED config
        /\ UNCHANGED history

\* lines 399-420: the module's linearity_measure reads and writes no facade
Function(pf, x, range, meth, T, eps, k, r, a, mtype) ==
    /\ call' \in {[op |-> "function",
                   args |-> Args(pf, x, range, meth, T, eps, k, r, a, mtype),
                   out |-> o] :
                     o \in linearity_measure(pf, x, range, meth, T, eps, k, r, a, mtype)}
    /\ UNCHANGED facade
    /\ UNCHANGED config
    /\ UNCHANGED history

\* the batches the facade is asked about: one instance of rank 0, 1 or 2,
\* every feature the same value
Level(shape, c) == Array(shape, <<[j \in 1..Prod(shape) |-> R(c)]>>)
XInputs == {Level(sh, c) : sh \in {<<>>, <<1>>, <<2>>}, c \in 0..MaxCoord}

DoFit == \E X \in TrainSets : Fit(X)
DoMeasure == \E x \in XInputs : \E pf \in FacadePredictors(model_type) : Measure(pf, x)

Next == DoFit \/ DoMeasure

Spec == Init /\ [][Next]_vars

-----------------------------------------------------------------------------
(* The module's linearity_measure as a function of its arguments: the      *)
(* arguments are drawn first, one call is made with them.                  *)

\* n instances of shape <<d>>, feature j of instance i being c + i + j
\* (within 0..MaxCoord)
Ramp(d, n, c) ==
    Array(<<d>>, [i \in 1..n |-> [j \in 1..d |-> R((c + i + j) % (MaxCoord + 1))]])

\* the shapes (instances, samples, features) that draw at most MaxDraws steps
DrawShapes ==
    {t \in (1..MaxDraws) \X (1..MaxDraws) \X (1..MaxDraws) : t[1] * t[2] * t[3] <= MaxDraws}

\* an explicit features range of d rows, row j being [0, j]
Span(d) == Array(<<2>>, [j \in 1..d |-> <<R(0), R(j)>>])

AlphaChoices == {None, Array(<<>>, <<R(1), R(1)>>), Array(<<>>, <<Rat(1, 3), Rat(2, 3)>>)}

FunctionPredictors(mtype) ==
    IF mtype = "regressor"
    THEN Regressors \cup {Affine(3, -1, 0)}
    ELSE Classifiers

\* the arguments tried for instances of d features, n instances, k samples
ArgsOfShape(n, k, d) ==
    {Args(mp[2], Ramp(d, n, c), range, meth, T, DefaultEpsilon, k, 2, a, mp[1]) :
        c \in 0..MaxCoord,
        range \in {None, Span(d)},
        T \in {None, TrainSet(<<d>>, 0), TrainSet(<<d>>, MaxTrainRows)},
        meth \in Methods, a \in AlphaChoices,
        mp \in UNION {{<<m, f>> : f \in FunctionPredictors(m)} : m \in ModelTypes}}

FunctionArgs == UNION {ArgsOfShape(t[1], t[2], t[3]) : t \in DrawShapes}

InitFn ==
    /\ method = "gridSampling"
    /\ model_type = "classifier"
    /\ epsilon = DefaultEpsilon
    /\ nb_samples = 1
    /\ res = 2
    /\ alphas = None
    /\ is_fit = FALSE
    /\ X_train = Unset
    /\ features_range = Unset
    /\ input_shape = Unset
    /\ call \in {[op |-> "args", args |-> g, out |-> Returned] : g \in FunctionArgs}
    /\ fitCalled = FALSE
    /\ fitReturned = FALSE
    /\ lastFit = None

Apply ==
    /\ call.op = "args"
    /\ Function(call.args.pf, call.args.x, call.args.range, call.args.method, call.args.T,
                call.args.eps, call.args.k, call.args.r, call.args.a, call.args.mtype)

NextFn == Apply

SpecFn == InitFn /\ [][NextFn]_vars

-----------------------------------------------------------------------------
(* _sample_gridSampling as a function of its arguments *)

EpsilonChoices == {R(0), DefaultEpsilon, Rat(5, 8), Rat(3, 4)}

\* one instance of d features, k samples, at most MaxDraws steps drawn;
\* the range has one row per feature, or one or two rows for numpy to
\* broadcast or to reject
GridArgs ==
    UNION {{Args(None, Ramp(t[3], 1, c), range, "gridSampling", None, eps, t[2], r,
                 None, "none") :
               c \in 0..MaxCoord, range \in {Span(t[3]), Span(1), Span(2)},
               eps \in EpsilonChoices, r \in 1..MaxRes} :
           t \in {u \in DrawShapes : u[1] = 1}}

InitGrid ==
    /\ method = "gridSampling"
    /\ model_type = "classifier"
    /\ epsilon = DefaultEpsilon
    /\ nb_samples = 1
    /\ res = 2
    /\ alphas = None
    /\ is_fit = FALSE
    /\ X_train = Unset
    /\ features_range = Unset
    /\ input_shape = Unset
    /\ call \in {[op |-> "args", args |-> g, out |-> Returned] : g \in GridArgs}
    /\ fitCalled = FALSE
    /\ fitReturned = FALSE
    /\ lastFit = None

Sample ==
    /\ call.op = "args"
    /\ LET g == call.args
           sampled == _sample_gridSampling(g.x, g.range, g.eps, g.k, g.r)
       IN  call' \in
             IF IsRaise(sampled)
             THEN {[op |-> "sample", args |-> g,
                    out |-> Outcome(sampled.exc, sampled.at, "gridSampling", g.range,
                                    <<>>, <<>>, <<>>)]}
             ELSE {[op |-> "sample", args |-> g,
                    out |-> Outcome("none", 0, "gridSampling", g.range, X, <<>>, <<>>)] :
                      X \in sampled.samples}
    /\ UNCHANGED facade
    /\ UNCHANGED config
    /\ UNCHANGED history

NextGrid == Sample

SpecGrid == InitGrid /\ [][NextGrid]_vars

-----------------------------------------------------------------------------
(* Both entry points, called with every method and model_type string: the  *)
(* facade, and the function with the facade's configuration                *)

FitOne == Fit(TrainSet(<<1>>, MaxTrainRows))

MeasureOne ==
    \E x \in {Level(<<1>>, 0), Level(<<2>>, 0)} :
        \E pf \in FacadePredictors(model_type) : Measure(pf, x)

FunctionOne ==
    \E range \in {None, Span(1)} :
        \E T \in {None, TrainSet(<<1>>, MaxTrainRows)} :
            \E pf \in FacadePredictors(model_type) :
                Function(pf, Level(<<1>>, 0), range, method, T, epsilon, nb_samples,
                         res, alphas, model_type)

NextConfig == FitOne \/ MeasureOne \/ FunctionOne

SpecConfig == Init /\ [][NextConfig]_vars

-----------------------------------------------------------------------------
(* Properties *)

Supported(meth) == meth \in {"knn", "gridSampling"}
Scorable(mtype) == mtype \in {"classifier", "regressor"}
Measured == call.op = "measure"
Called == call.op = "function"
NothingDone(out) ==
    /\ out.sampler = "none"
    /\ out.samples = <<>>
    /\ out.calls = <<>>
    /\ out.score = <<>>

\* C1 as stated: the facade is fit exactly when fit() has been called at
\* least once, whether the call returned or raised.
C1_FitIffCalled == is_fit = fitCalled

\* C1 as amended: the facade is unfit when constructed and is fit exactly when
\* some fit() call has returned: a fit() call that raises does not make it
\* fit, no linearity_measure() call changes the flag, and once fit it
\* stays fit.
C1_FitIffReturned ==
    /\ [](is_fit = fitReturned)
    /\ [][is_fit => is_fit']_vars
    /\ [][call'.op = "measure" => is_fit' = is_fit]_vars

\* a fit() call raised on a fit facade, which is still fit
C1_Witness ==
    /\ call.op = "fit"
    /\ call.out.exc = "ValueError"
    /\ is_fit
    /\ X_train # lastFit

\* C2: on a 'knn' facade on which fit() was never called, linearity_measure
\* fails on the assertion of line 343, for every x and every model_type,
\* with no sampling and no call of predict_fn, and the facade stays unfit.
C2_KnnNeedsFit ==
    (Measured /\ method = "knn" /\ ~fitCalled) =>
        /\ call.out.exc = "AssertionError"
        /\ call.out.at = 343
        /\ NothingDone(call.out)
        /\ ~is_fit

C2_Witness ==
    /\ Measured
    /\ method = "knn"
    /\ ~fitCalled
    /\ model_type = "other"
    /\ call.args.x.shape = <<2>>

\* C3: on a fit facade, a 'gridSampling' call with a supported model_type and
\* an x of the fitted shape returns one score per instance, samples with the
\* range the last returning fit() stored, which is the per-dimension min and
\* max of that fit's X_train, and changes nothing the facade stores.
C3_FitGridUsesStoredRange ==
    [][(/\ call'.op = "measure"
        /\ is_fit
        /\ method = "gridSampling"
        /\ Scorable(model_type)
        /\ Tuple(call'.args.x.shape) = input_shape)
       => /\ call'.out.exc = "none"
          /\ Len(call'.out.score) = NbInstances(call'.args.x)
          /\ call'.out.sampler = "gridSampling"
          /\ call'.out.range = features_range
          /\ features_range = _infer_features_range(lastFit)
          /\ UNCHANGED facade]_vars

\* a grid call succeeded after a fit() that returned and a later one that raised
C3_Witness ==
    /\ Measured
    /\ method = "gridSampling"
    /\ call.out.exc = "none"
    /\ call.out.range = features_range
    /\ X_train # lastFit
    /\ call.out.samples[1][1] # call.args.x.rows[1]

UnitRangeOf(x) == Array(<<2>>, [j \in 1..FlatDim(x) |-> <<R(0), R(1)>>])

\* C4: on a 'gridSampling' facade on which fit() was never called,
\* linearity_measure falls back to the range [0, 1] for every feature of x,
\* samples and scores with it and returns one score per instance.
C4_UnfitGridFallsBack ==
    (Measured /\ method = "gridSampling" /\ ~fitCalled /\ Scorable(model_type)) =>
        /\ call.out.exc = "none"
        /\ call.out.sampler = "gridSampling"
        /\ call.out.range = UnitRangeOf(call.args.x)
        /\ Len(call.out.score) = NbInstances(call.args.x)

\* C5 as stated: every call that returns a score called predict_fn twice.
C5_TwoPredictCalls ==
    (Called /\ call.out.exc = "none") => Len(call.out.calls) = 2

\* C5 as amended: every call that returns a score called predict_fn exactly
\* three times, whatever the number of instances N and of samples K: on the
\* N * K samples, on the N instances, on the N * K superpositions.
C5_ThreePredictCalls ==
    (Called /\ call.out.exc = "none") =>
        LET n == NbInstances(call.args.x)
        IN  call.out.calls = <<n * call.args.k, n, n * call.args.k>>

C5_Witness ==
    /\ Called
    /\ call.out.exc = "none"
    /\ call.args.method = "knn"
    /\ call.args.mtype = "classifier"
    /\ NbInstances(call.args.x) = 2

AffineRegression ==
    /\ Called
    /\ call.out.exc = "none"
    /\ call.args.mtype = "regressor"
    /\ call.args.pf.kind = "affine"

\* C6 as stated: the score of an affine regressor is 0 for every instance,
\* whatever the offset b and the alphas.
C6_AffineScoresZero ==
    AffineRegression =>
        \A i \in 1..Len(call.out.score) : call.out.score[i] = R(0)

\* C6 as amended: the score of an affine regressor is, for every instance and
\* every sampled neighbourhood, ((alpha0 + alpha1 - 1) * b) squared: 0 when
\* the alphas sum to 1 (as the default does) or when the offset b is 0.
C6_AffineScore ==
    AffineRegression =>
        LET a == IF call.args.a = None THEN <<Rat(1, 2), Rat(1, 2)>> ELSE call.args.a.rows
            gap == RMul(RSub(RAdd(a[1], a[2]), R(1)), R(call.args.pf.b))
        IN  \A i \in 1..Len(call.out.score) : call.out.score[i] = RSquare(gap)

\* an offset, alphas other than the default that sum to 1, neighbours from knn
C6_Witness ==
    /\ AffineRegression
    /\ call.args.pf.b # 0
    /\ call.args.a = Array(<<>>, <<Rat(1, 3), Rat(2, 3)>>)
    /\ call.args.method = "knn"
    /\ call.out.score = <<R(0), R(0)>>

\* the offsets of a sampled array from its instances, against the step bound
\* `steps' times delta_d = |max_d - min_d| / res
OffsetsWithin(steps) ==
    LET g == call.args
        u == g.x.rows[1]
        rows == NbInstances(g.range)
        X == call.out.samples
    IN  \A i \in 1..Len(X) : \A s \in 1..Len(X[i]) : \A j \in 1..Len(X[i][s]) :
            LET lo == g.range.rows[IF rows = 1 THEN 1 ELSE j][1]
                hi == g.range.rows[IF rows = 1 THEN 1 ELSE j][2]
                delta == RMul(RAbs(RSub(hi, lo)), Rat(1, g.r))
                off == RAbs(RSub(X[i][s][j], g.x.rows[i][IF Len(u) = 1 THEN 1 ELSE j]))
            IN  RLeq(off, RMul(R(steps), delta))

Sampled == call.op = "sample" /\ call.out.exc = "none"

\* C7 as stated: every offset of a sample from its instance is at most
\* round(epsilon * res) steps delta_d in every dimension d, and at most one
\* step where that rounds to 0.
C7_WithinRoundedEpsilon ==
    Sampled =>
        LET rounded == NpRound(RMul(call.args.eps, R(call.args.r)))
        IN  OffsetsWithin(IF rounded < 1 THEN 1 ELSE rounded)

\* C7 as amended: every offset is at most max(2, round(epsilon * res)) steps
\* delta_d in every dimension d; with epsilon = 0 that is two steps, not one.
C7_WithinFlooredSize ==
    Sampled =>
        LET rounded == NpRound(RMul(call.args.eps, R(call.args.r)))
        IN  OffsetsWithin(IF rounded < 2 THEN 2 ELSE rounded)

\* epsilon = 0 and a sample two steps away from its instance
C7_Witness ==
    /\ Sampled
    /\ call.args.eps = R(0)
    /\ call.args.r = 2
    /\ call.args.range = Span(2)
    /\ call.args.x.shape = <<2>>
    /\ RAbs(RSub(call.out.samples[1][1][2], call.args.x.rows[1][2])) = R(2)

IsMinMaxOf(range, T) ==
    /\ range.shape = <<2>>
    /\ NbInstances(range) = FlatDim(T)
    /\ \A d \in 1..FlatDim(T) :
          /\ \A i \in 1..NbInstances(T) :
                RLeq(range.rows[d][1], T.rows[i][d]) /\ RLeq(T.rows[i][d], range.rows[d][2])
          /\ \E i \in 1..NbInstances(T) : T.rows[i][d] = range.rows[d][1]
          /\ \E i \in 1..NbInstances(T) : T.rows[i][d] = range.rows[d][2]

\* C8: the function with method 'gridSampling' fails on the assertion of line
\* 407, before any sampling or call of predict_fn, when neither X_train nor
\* features_range is given; samples with the per-dimension (min, max) of
\* X_train when only X_train is given; samples with features_range whenever
\* it is given.
C8_GridRangeSource ==
    (Called /\ call.args.method = "gridSampling") =>
        /\ (call.args.range = None /\ call.args.T = None) =>
              /\ call.out.exc = "AssertionError"
              /\ call.out.at = 407
              /\ NothingDone(call.out)
        /\ (call.args.range = None /\ call.args.T # None) =>
              IF NbInstances(call.args.T) = 0
              THEN call.out.exc = "ValueError" /\ NothingDone(call.out)
              ELSE /\ call.out.sampler = "gridSampling"
                   /\ IsMinMaxOf(call.out.range, call.args.T)
        /\ call.args.range # None =>
              /\ call.out.sampler = "gridSampling"
              /\ call.out.range = call.args.range

\* only X_train is given, of two features, and the call returns a score
C8_Witness ==
    /\ Called
    /\ call.args.method = "gridSampling"
    /\ call.args.range = None
    /\ call.args.T # None
    /\ call.out.exc = "none"
    /\ call.out.range = Array(<<2>>, << <<R(0), R(1)>>, <<R(0), R(1)>> >>)

\* C9: on a fit facade a call whose x has another per-instance shape than
\* the stored input_shape fails on the assertion of line 340, for every
\* method, with no sampling and no call of predict_fn, and changes nothing
\* the facade stores; on an unfit facade that assertion is never made.
C9_ShapeChecked ==
    [][call'.op = "measure" =>
          /\ (is_fit /\ Tuple(call'.args.x.shape) # input_shape) =>
                /\ call'.out.exc = "AssertionError"
                /\ call'.out.at = 340
                /\ NothingDone(call'.out)
                /\ UNCHANGED facade
          /\ ~is_fit => call'.out.at # 340]_vars

C9_Witness ==
    /\ Measured
    /\ is_fit
    /\ method = "knn"
    /\ input_shape = Tuple(<<2>>)
    /\ call.args.x.shape = <<1>>
    /\ call.out.at = 340

BadConfig == ~Supported(call.args.method) \/ ~Scorable(call.args.mtype)

\* C10 as stated: a call of either entry point with an unsupported method
\* or model_type ends in a configuration error raised before any sampling
\* and before any call of predict_fn, and returns no score.
C10_ConfigErrorFirst ==
    ((Measured \/ Called) /\ BadConfig) =>
        /\ call.out.exc = "NameError"
        /\ NothingDone(call.out)

\* C10 as amended: such a call raises, returns no score and never calls
\* predict_fn.  An unsupported method is a NameError raised before any
\* sampling, unless the shape assertion of a fit facade fails first.  An
\* unsupported model_type with a supported method is found only after
\* sampling: the checks of the method and the sampler run first, and the
\* NameError of line 262 is raised exactly when the sampler has returned.
C10_ConfigError ==
    ((Measured \/ Called) /\ BadConfig) =>
        /\ call.out.exc # "none"
        /\ call.out.calls = <<>>
        /\ call.out.score = <<>>
        /\ ~Supported(call.args.method) =>
              /\ call.out.sampler = "none"
              /\ call.out.exc = "NameError" \/ (Measured /\ call.out.at = 340)
        /\ Supported(call.args.method) =>
              /\ call.out.exc = "NameError" <=> call.out.samples # <<>>
              /\ call.out.exc = "NameError" => call.out.at = 262

\* a fit facade sampled a grid neighbourhood before it rejected the model_type
C10_Witness ==
    /\ Measured
    /\ is_fit
    /\ method = "gridSampling"
    /\ model_type = "other"
    /\ call.out.sampler = "gridSampling"
    /\ call.out.samples # <<>>
    /\ call.out.exc = "NameError"

====
